---- MODULE Spec2Model ----
(***************************************************************************)
(* Weighted-NFA beam adapters, UTF-8 adapter, weighted Levenshtein NFA and *)
(* the FST x automaton joint stream of fst-extra-aut.                      *)
(*                                                                         *)
(* Costs (f64) are naturals; f64::INFINITY is the value INFINITY.  Bytes   *)
(* are 0..255, chars are Unicode scalar values.  Option<T> is a sequence   *)
(* of length 0 (None) or 1 (Some).  A lazy edge iterator is the sequence   *)
(* of the items it has still to yield.  BinaryHeap::pop is a choice among  *)
(* the items of least weight, so accept yields a set of frontiers.         *)
(***************************************************************************)
EXTENDS Integers, Sequences, FiniteSets, TLC

VARIABLES
    aut,        \* the automaton under test (a composed matcher stack)
    st,         \* SpecFeed/SpecUtf8: the automaton state after the bytes fed
    fed,        \* the bytes fed so far
    calls,      \* the chars handed to the inner DFA by the UTF-8 adapter
    fst,        \* SpecStream: the FST (root node of the key -> value map)
    inp,        \* SimpleStateStream.inp
    stack,      \* SimpleStateStream.stack
    pc,         \* "idle" between calls, "loop" inside next() or step_inner
    ret,        \* the value returned by the last next() call
    emitted,    \* the keys returned by the next() calls so far
    agenda,     \* SpecLoop: heap, seen_states and result of a running step_inner
    popped      \* SpecLoop: the weights of the edges it has popped so far

vars ==
    <<aut, st, fed, calls, fst, inp, stack, pc, ret, emitted, agenda, popped>>

----------------------------------------------------------------------------
(* Bounds *)

MaxQueryLen ==
    2

MaxKeyBytes ==
    3

MaxUtf8Bytes ==
    4

MaxKeyLen ==
    2

MaxKeys ==
    2

----------------------------------------------------------------------------
(* Option, weights *)

None ==
    <<>>

Some(x) ==
    <<x>>

INFINITY ==
    1000

WAdd(a, b) ==
    IF a = INFINITY \/ b = INFINITY THEN INFINITY ELSE a + b

----------------------------------------------------------------------------
(* UTF-8: std::str::from_utf8 and char encoding *)

IsCont(b) ==
    b >= 128 /\ b <= 191

\* length of the well-formed UTF-8 sequence at the head of s, 0 if none
Utf8Head(s) ==
    IF s = <<>> THEN 0
    ELSE LET b == s[1] IN
         IF b < 128 THEN 1
         ELSE IF b >= 194 /\ b <= 223
              THEN IF Len(s) >= 2 /\ IsCont(s[2]) THEN 2 ELSE 0
         ELSE IF b >= 224 /\ b <= 239
              THEN IF /\ Len(s) >= 3
                      /\ IsCont(s[2]) /\ IsCont(s[3])
                      /\ (b = 224 => s[2] >= 160)
                      /\ (b = 237 => s[2] <= 159)
                   THEN 3 ELSE 0
         ELSE IF b >= 240 /\ b <= 244
              THEN IF /\ Len(s) >= 4
                      /\ IsCont(s[2]) /\ IsCont(s[3]) /\ IsCont(s[4])
                      /\ (b = 240 => s[2] >= 144)
                      /\ (b = 244 => s[2] <= 143)
                   THEN 4 ELSE 0
         ELSE 0

RECURSIVE from_utf8_ok(_)
from_utf8_ok(s) ==
    IF s = <<>> THEN TRUE
    ELSE LET n == Utf8Head(s) IN
         IF n = 0 THEN FALSE ELSE from_utf8_ok(SubSeq(s, n + 1, Len(s)))

\* the scalar encoded by the first Utf8Head(s) bytes of s
FirstChar(s) ==
    LET n == Utf8Head(s) IN
    IF n = 1 THEN s[1]
    ELSE IF n = 2 THEN (s[1] - 192) * 64 + (s[2] - 128)
    ELSE IF n = 3 THEN (s[1] - 224) * 4096 + (s[2] - 128) * 64 + (s[3] - 128)
    ELSE (s[1] - 240) * 262144 + (s[2] - 128) * 4096
             + (s[3] - 128) * 64 + (s[4] - 128)

\* mutant: every byte is taken for a char of its own
chr_res_bytewise(buffer) ==
    Some(buffer[Len(buffer)])

\* from_utf8(buffer).map(|st| st.chars().next().unwrap())
chr_res(buffer) ==
    IF from_utf8_ok(buffer) THEN Some(FirstChar(buffer)) ELSE None

\* the chars of a well-formed byte string (str::chars)
RECURSIVE Chars(_)
Chars(s) ==
    IF s = <<>> THEN <<>>
    ELSE <<FirstChar(s)>> \o Chars(SubSeq(s, Utf8Head(s) + 1, Len(s)))

\* the UTF-8 encoding of one scalar
EncodeChar(c) ==
    IF c < 128 THEN <<c>>
    ELSE IF c < 2048 THEN <<192 + (c \div 64), 128 + (c % 64)>>
    ELSE IF c < 65536
         THEN <<224 + (c \div 4096), 128 + ((c \div 64) % 64), 128 + (c % 64)>>
    ELSE <<240 + (c \div 262144), 128 + ((c \div 4096) % 64),
           128 + ((c \div 64) % 64), 128 + (c % 64)>>

RECURSIVE Encode(_)
Encode(cs) ==
    IF cs = <<>> THEN <<>> ELSE EncodeChar(Head(cs)) \o Encode(Tail(cs))

----------------------------------------------------------------------------
(* Weighted Levenshtein NFA (levenshtein/weighted.rs) *)

WeightedLevenshteinNFA_new(query) ==
    [kind |-> "lev", query |-> Chars(query)]

\* mutant: the iterator starts out as if it had deleted already
LevenshteinNextStates_new_deleted(chars, chr) ==
    [chars |-> chars, inp |-> chr, state |-> "Match",
     extra_weight |-> 0, deleted |-> TRUE]

LevenshteinNextStates_new(chars, chr) ==
    [chars |-> chars, inp |-> chr, state |-> "Match",
     extra_weight |-> 0, deleted |-> FALSE]

\* Iterator::next: <<yielded item, iterator afterwards>>
RECURSIVE LevenshteinNextStates_next(_, _)
LevenshteinNextStates_next(query, it) ==
    IF it.state = "Match" THEN
        LET it2 == [it EXCEPT !.state = "Substitute"] IN
        IF it.chars < Len(query) /\ query[it.chars + 1] = it.inp
        THEN <<Some(<<it.chars + 1, 0 + it.extra_weight>>), it2>>
        ELSE LevenshteinNextStates_next(query, it2)
    ELSE IF it.state = "Substitute" THEN
        LET it2 == [it EXCEPT !.state = "Insert"] IN
        IF it.chars < Len(query)
        THEN <<Some(<<it.chars + 1, 1 + it.extra_weight>>), it2>>
        ELSE LevenshteinNextStates_next(query, it2)
    ELSE IF it.state = "Insert" THEN
        LET it2 == [it EXCEPT !.state = "Delete"] IN
        IF ~it.deleted
        THEN <<Some(<<it.chars, 1 + it.extra_weight>>), it2>>
        ELSE LevenshteinNextStates_next(query, it2)
    ELSE
        IF it.chars + 1 >= Len(query)
        THEN <<None, it>>
        ELSE LevenshteinNextStates_next(query,
                 [it EXCEPT !.chars = it.chars + 1, !.state = "Match",
                            !.extra_weight = it.extra_weight + 1,
                            !.deleted = TRUE])

\* the items an iterator yields until its first None
RECURSIVE Drain(_, _)
Drain(query, it) ==
    LET r == LevenshteinNextStates_next(query, it) IN
    IF r[1] = None THEN <<>> ELSE <<r[1][1]>> \o Drain(query, r[2])

----------------------------------------------------------------------------
(* HfstBasicTransducerBox (hfst.rs).  An NFA is the record                 *)
(*   [kind |-> "hfst", graph, final, read]                                 *)
(* graph[stateno] is the sequence of the transitions out of stateno, each  *)
(* [sym, target, weight] with sym a byte string.  step() returns a pointer *)
(* into a std::vector that is destroyed when the C++ block returns, and    *)
(* the Rust side copies the entries from that freed memory: read[k] is     *)
(* what the read of entry k finds there, None for the entry as it was      *)
(* written and Some(e) for other contents e.                               *)

\* "@_EPSILON_SYMBOL_@".as_bytes()
EpsilonSymbol ==
    <<64, 95, 69, 80, 83, 73, 76, 79, 78, 95, 83, 89, 77, 66, 79, 76, 95, 64>>

\* CString::new(inp) is Ok: no byte of inp is 0
CString_new_ok(input) ==
    \A i \in DOMAIN input : input[i] # 0

\* next_states_out: the transitions out of stateno whose symbol is inp
next_states_out(nfa, stateno, input) ==
    LET ts  == nfa.graph[stateno]
        idx == {i \in DOMAIN ts : ts[i].sym = input}
        nth(k) == CHOOSE i \in idx : Cardinality({j \in idx : j < i}) = k - 1
    IN  [k \in 1..Cardinality(idx) |-> <<ts[nth(k)].target, ts[nth(k)].weight>>]

\* step: next_states as copied from the freed vector (an empty vector is
\* handed over as a null pointer of size 0 and read as the empty slice)
HfstBasicTransducerBox_step(nfa, stateno, input) ==
    LET out == next_states_out(nfa, stateno, input)
    IN  [k \in DOMAIN out |->
            IF k \in DOMAIN nfa.read /\ nfa.read[k] # None
            THEN nfa.read[k][1] ELSE out[k]]

get_next_state_iter(next_states) ==
    [k \in DOMAIN next_states |-> <<<<next_states[k][1], <<>>>>, next_states[k][2]>>]

\* if new_buf.len() >= 4
BufferFull(new_buf) ==
    Len(new_buf) >= 4

HfstBasicTransducerBox_accept(nfa, state, byte) ==
    LET stateno     == state[1]
        new_buf     == Append(state[2], byte)
        next_states == HfstBasicTransducerBox_step(nfa, stateno, new_buf)
    IN  IF Len(next_states) = 0
        THEN IF BufferFull(new_buf) THEN <<>>
             ELSE <<<<<<stateno, new_buf>>, 0>>>>
        ELSE get_next_state_iter(next_states)

HfstBasicTransducerBox_follow_epsilon(nfa, state) ==
    IF Len(state[2]) # 0 THEN <<>>
    ELSE get_next_state_iter(HfstBasicTransducerBox_step(nfa, state[1], EpsilonSymbol))

HfstBasicTransducerBox_is_match(nfa, state) ==
    IF Len(state[2]) # 0 THEN FALSE ELSE state[1] \in nfa.final

----------------------------------------------------------------------------
(* WeightedNFA / FollowEpsilonNFA (adapters.rs), by implementation *)

nfa_start(nfa) ==
    IF nfa.kind = "lev" THEN 0
    ELSE IF nfa.kind = "hfst" THEN <<0, <<>>>>
    ELSE nfa.start

nfa_is_match(nfa, state) ==
    IF nfa.kind = "lev" THEN state = Len(nfa.query)
    ELSE IF nfa.kind = "hfst" THEN HfstBasicTransducerBox_is_match(nfa, state)
    ELSE state \in nfa.final

nfa_can_match(nfa, state) ==
    TRUE

nfa_will_always_match(nfa, state) ==
    FALSE

nfa_accept(nfa, state, chr) ==
    IF nfa.kind = "lev"
    THEN Drain(nfa.query, LevenshteinNextStates_new(state, chr))
    ELSE IF nfa.kind = "hfst" THEN HfstBasicTransducerBox_accept(nfa, state, chr)
    ELSE nfa.edges[state][chr]

nfa_follow_epsilon(nfa, state) ==
    IF nfa.kind = "hfst" THEN HfstBasicTransducerBox_follow_epsilon(nfa, state)
    ELSE nfa.eps[state]

----------------------------------------------------------------------------
(* BeamSearchAdapter (adapters.rs) *)

\* mutant: the item forgets the cost of the frontier entry it comes from
AgendaItem_new_no_base(base_weight, iter) ==
    [base_weight |-> 0,
     peek |-> IF iter = <<>> THEN None ELSE Some(Head(iter)),
     iter |-> IF iter = <<>> THEN <<>> ELSE Tail(iter)]

AgendaItem_new(base_weight, iter) ==
    [base_weight |-> base_weight,
     peek |-> IF iter = <<>> THEN None ELSE Some(Head(iter)),
     iter |-> IF iter = <<>> THEN <<>> ELSE Tail(iter)]

\* AgendaItem::next: <<old peek, item afterwards>>
AgendaItem_next(item) ==
    <<item.peek, AgendaItem_new(item.base_weight, item.iter)>>

weight(item) ==
    IF item.peek = None THEN INFINITY
    ELSE WAdd(item.base_weight, item.peek[1][2])

RemoveAt(s, i) ==
    SubSeq(s, 1, i - 1) \o SubSeq(s, i + 1, Len(s))

\* mutant: the comparison is not reversed, the heap pops the dearest item
PopChoices_max_heap(heap) ==
    {i \in DOMAIN heap : \A j \in DOMAIN heap : weight(heap[i]) >= weight(heap[j])}

\* the items BinaryHeap::pop may return: those of least weight
PopChoices(heap) ==
    {i \in DOMAIN heap : \A j \in DOMAIN heap : weight(heap[i]) <= weight(heap[j])}

\* mutant: an edge at exactly the threshold is pruned too
OverThreshold_inclusive(b, next_weight) ==
    next_weight >= b.threshold \/ next_weight = INFINITY

\* the threshold filter of step_inner
OverThreshold(b, next_weight) ==
    next_weight > b.threshold \/ next_weight = INFINITY

\* mutant: the seen_states filter is missing
AlreadySeen_never(seen_states, next_state) ==
    FALSE

\* the seen_states filter of step_inner
AlreadySeen(seen_states, next_state) ==
    next_state \in seen_states

\* mutant: the beam admits one entry more
BeamFull_one_more(b, result) ==
    Len(result) > b.beam_size

\* the beam filter of step_inner
BeamFull(b, result) ==
    Len(result) >= b.beam_size

\* mutant: the epsilon edges of a state are put on the heap twice
expand_epsilon_twice(b, heap, next_state, next_weight) ==
    LET item == AgendaItem_new(next_weight, nfa_follow_epsilon(b.aut, next_state))
    IN  Append(Append(heap, item), item)

expand_epsilon(b, heap, next_state, next_weight) ==
    Append(heap, AgendaItem_new(next_weight, nfa_follow_epsilon(b.aut, next_state)))

\* mutant: an item whose edge is over the threshold is pushed back
step_iteration_repush(b, extra_expand, c, i) ==
    LET item        == c.heap[i]
        next_weight == weight(item)
        nx          == AgendaItem_next(item)
        dropped     == RemoveAt(c.heap, i)
        put_back    == [c.heap EXCEPT ![i] = nx[2]]
    IN  IF nx[1] = None THEN [c EXCEPT !.heap = dropped]
        ELSE LET next_state == nx[1][1][1] IN
             IF OverThreshold(b, next_weight) THEN [c EXCEPT !.heap = put_back]
             ELSE IF ~AlreadySeen(c.seen_states, next_state) THEN
                  LET result == Append(c.result, <<next_state, next_weight>>) IN
                  IF BeamFull(b, result)
                  THEN [heap |-> dropped,
                        seen_states |-> c.seen_states \cup {next_state},
                        result |-> result, brk |-> TRUE]
                  ELSE [heap |-> IF extra_expand
                                 THEN expand_epsilon(b, put_back, next_state, next_weight)
                                 ELSE put_back,
                        seen_states |-> c.seen_states \cup {next_state},
                        result |-> result, brk |-> FALSE]
             ELSE [c EXCEPT !.heap = put_back]

\* one iteration of the while loop of step_inner, popping heap[i];
\* the heap is kept as a sequence whose order carries no meaning
step_iteration(b, extra_expand, c, i) ==
    LET item        == c.heap[i]
        next_weight == weight(item)
        nx          == AgendaItem_next(item)
        dropped     == RemoveAt(c.heap, i)
        put_back    == [c.heap EXCEPT ![i] = nx[2]]
    IN  IF nx[1] = None THEN [c EXCEPT !.heap = dropped]
        ELSE LET next_state == nx[1][1][1] IN
             IF OverThreshold(b, next_weight) THEN [c EXCEPT !.heap = dropped]
             ELSE IF ~AlreadySeen(c.seen_states, next_state) THEN
                  LET result == Append(c.result, <<next_state, next_weight>>) IN
                  IF BeamFull(b, result)
                  THEN [heap |-> dropped,
                        seen_states |-> c.seen_states \cup {next_state},
                        result |-> result, brk |-> TRUE]
                  ELSE [heap |-> IF extra_expand
                                 THEN expand_epsilon(b, put_back, next_state, next_weight)
                                 ELSE put_back,
                        seen_states |-> c.seen_states \cup {next_state},
                        result |-> result, brk |-> FALSE]
             ELSE [c EXCEPT !.heap = put_back]

LoopDone(c) ==
    c.brk \/ c.heap = <<>>

\* the loop states reachable from the set cs, by layers; acc collects
\* the states at which the loop has ended
RECURSIVE LoopRuns(_, _, _, _)
LoopRuns(b, extra_expand, cs, acc) ==
    IF cs = {} THEN acc
    ELSE LET running == {c \in cs : ~LoopDone(c)}
             nxt == UNION {{step_iteration(b, extra_expand, c, i) :
                               i \in PopChoices(c.heap)} : c \in running}
         IN  LoopRuns(b, extra_expand, nxt, acc \cup (cs \ running))

\* the locals of step_inner on entry
step_inner_entry(heap, seen_states, result) ==
    [heap |-> heap, seen_states |-> seen_states, result |-> result, brk |-> FALSE]

\* the frontiers step_inner may return
step_inner(b, extra_expand, heap, seen_states, result) ==
    {c.result : c \in LoopRuns(b, extra_expand,
                    {step_inner_entry(heap, seen_states, result)}, {})}

\* the heap step() builds: one agenda item per frontier entry
step_heap(b, state, chr) ==
    [k \in DOMAIN state |->
        AgendaItem_new(state[k][2], nfa_accept(b.aut, state[k][1], chr))]

step(b, state, chr, extra_expand) ==
    step_inner(b, extra_expand, step_heap(b, state, chr), {}, <<>>)

BeamSearchAdapter_start(b) ==
    <<<<nfa_start(b.aut), 0>>>>

\* mutant: every member has to match
BeamSearchAdapter_is_match_all(b, state) ==
    \A k \in DOMAIN state : nfa_is_match(b.aut, state[k][1])

BeamSearchAdapter_is_match(b, state) ==
    \E k \in DOMAIN state : nfa_is_match(b.aut, state[k][1])

BeamSearchAdapter_can_match(b, state) ==
    \E k \in DOMAIN state : nfa_can_match(b.aut, state[k][1])

BeamSearchAdapter_will_always_match(b, state) ==
    \E k \in DOMAIN state : nfa_will_always_match(b.aut, state[k][1])

BeamSearchAdapter_accept(b, state, chr) ==
    step(b, state, chr, FALSE)

----------------------------------------------------------------------------
(* EpsilonExpandingBeamSearchAdapter (adapters.rs) *)

\* the arguments start() hands to step_inner
EpsilonExpanding_start_entry(b) ==
    LET start_state == BeamSearchAdapter_start(b)
        state  == start_state[1][1]
        w      == start_state[1][2]
        heap   == expand_epsilon(b, <<>>, state, w)
    IN  step_inner_entry(heap, {state}, <<<<state, w>>>>)

EpsilonExpanding_start(b) ==
    LET c == EpsilonExpanding_start_entry(b)
    IN  step_inner(b, TRUE, c.heap, c.seen_states, c.result)

EpsilonExpanding_accept(b, state, chr) ==
    step(b, state, chr, TRUE)

----------------------------------------------------------------------------
(* SimpleLevenshtein (levenshtein/unweighted.rs) *)

SimpleLevenshtein_new(query, threshold) ==
    [kind |-> "simplelev", query |-> Chars(query), threshold |-> threshold]

RECURSIVE get_next_states(_, _, _, _)
get_next_states(state, query, chr, threshold) ==
    LET have_extra_dist == state.distance < threshold
        forward_query_mod_state ==
            [chars |-> state.chars + 1, distance |-> state.distance + 1]
    IN  (IF have_extra_dist
         THEN <<[chars |-> state.chars, distance |-> state.distance + 1]>>
         ELSE <<>>)
        \o (IF state.chars < Len(query)
            THEN (IF query[state.chars + 1] = chr
                  THEN <<[chars |-> state.chars + 1, distance |-> state.distance]>>
                  ELSE <<>>)
                 \o (IF have_extra_dist
                     THEN get_next_states(forward_query_mod_state, query, chr,
                                          threshold)
                          \o <<forward_query_mod_state>>
                     ELSE <<>>)
            ELSE <<>>)

\* mutant: a state at exactly the threshold does not match
SimpleLevenshteinState_is_match_strict(state, query, threshold) ==
    state.chars = Len(query) /\ state.distance < threshold

SimpleLevenshteinState_is_match(state, query, threshold) ==
    state.chars = Len(query) /\ state.distance <= threshold

SimpleLevenshteinState_can_match(state, query, threshold) ==
    state.distance <= threshold

SimpleLevenshteinState_accept(state, query, chr, threshold) ==
    get_next_states(state, query, chr, threshold)

SimpleLevenshtein_start(a) ==
    [states |-> <<[chars |-> 0, distance |-> 0]>>, buffer |-> <<>>]

SimpleLevenshtein_is_match(a, state) ==
    IF Len(state.buffer) # 0 THEN FALSE
    ELSE \E k \in DOMAIN state.states :
            SimpleLevenshteinState_is_match(state.states[k], a.query, a.threshold)

SimpleLevenshtein_can_match(a, state) ==
    \E k \in DOMAIN state.states :
        SimpleLevenshteinState_can_match(state.states[k], a.query, a.threshold)

\* states.iter().flat_map(f).collect()
RECURSIVE flat_map(_, _, _)
flat_map(a, states, chr) ==
    IF states = <<>> THEN <<>>
    ELSE SimpleLevenshteinState_accept(Head(states), a.query, chr, a.threshold)
         \o flat_map(a, Tail(states), chr)

SimpleLevenshtein_accept(a, state, byte) ==
    LET buffer == Append(state.buffer, byte)
        chr    == chr_res(buffer)
    IN  IF chr # None
        THEN [states |-> flat_map(a, state.states, chr[1]), buffer |-> <<>>]
        ELSE [states |-> state.states, buffer |-> buffer]

----------------------------------------------------------------------------
(* The DFA trait (adapters.rs), by implementation.  start and accept give *)
(* the set of states the call may return.                                 *)

\* other contents a read of a freed entry may find
FreedEntries ==
    {<<0, 0>>, <<2, 1>>}

\* what the reads of the freed vector find during one call
FreedReads ==
    [1..2 -> {None} \cup {Some(e) : e \in FreedEntries}]

\* the adapter as one call sees it: over the transducer NFA every outcome
\* of the reads of freed memory
CallOutcomes(d) ==
    IF d.aut.kind = "hfst"
    THEN {[d EXCEPT !.aut.read = r] : r \in FreedReads}
    ELSE {d}

\* CString::new(inp).unwrap() in step() panics
step_panics(d, state, x) ==
    /\ d.aut.kind = "hfst"
    /\ \E k \in DOMAIN state : ~CString_new_ok(Append(state[k][1][2], x))

RECURSIVE dfa_start(_)
dfa_start(d) ==
    IF d.kind = "tdfa" THEN {d.start}
    ELSE IF d.kind = "simplelev" THEN {SimpleLevenshtein_start(d)}
    ELSE IF d.kind = "beam" THEN {BeamSearchAdapter_start(d)}
    ELSE IF d.kind = "epsbeam"
    THEN UNION {EpsilonExpanding_start(c) : c \in CallOutcomes(d)}
    ELSE {<<s, <<>>>> : s \in dfa_start(d.inner)}

\* mutant: the buffer is not consulted
DFAUtf8Adapter_is_match_any_buffer(inner_is_match, buffer) ==
    inner_is_match

\* mutant: one buffered byte is let through
DFAUtf8Adapter_is_match_short_buffer(inner_is_match, buffer) ==
    Len(buffer) <= 1 /\ inner_is_match

\* DFAUtf8Adapter::is_match, given the inner automaton's answer
DFAUtf8Adapter_is_match(inner_is_match, buffer) ==
    Len(buffer) = 0 /\ inner_is_match

RECURSIVE dfa_is_match(_, _)
dfa_is_match(d, state) ==
    IF d.kind = "tdfa" THEN state \in d.match
    ELSE IF d.kind = "simplelev" THEN SimpleLevenshtein_is_match(d, state)
    ELSE IF d.kind \in {"beam", "epsbeam"} THEN BeamSearchAdapter_is_match(d, state)
    ELSE DFAUtf8Adapter_is_match(dfa_is_match(d.inner, state[1]), state[2])

RECURSIVE dfa_can_match(_, _)
dfa_can_match(d, state) ==
    IF d.kind = "tdfa" THEN state \in d.can
    ELSE IF d.kind = "simplelev" THEN SimpleLevenshtein_can_match(d, state)
    ELSE IF d.kind \in {"beam", "epsbeam"} THEN BeamSearchAdapter_can_match(d, state)
    ELSE dfa_can_match(d.inner, state[1])

RECURSIVE dfa_will_always_match(_, _)
dfa_will_always_match(d, state) ==
    IF d.kind \in {"tdfa", "simplelev"} THEN FALSE
    ELSE IF d.kind \in {"beam", "epsbeam"}
    THEN BeamSearchAdapter_will_always_match(d, state)
    ELSE dfa_will_always_match(d.inner, state[1])

RECURSIVE dfa_accept(_, _, _)
dfa_accept(d, state, x) ==
    IF d.kind = "tdfa" THEN {d.delta[state][x]}
    ELSE IF d.kind = "simplelev" THEN {SimpleLevenshtein_accept(d, state, x)}
    ELSE IF d.kind = "beam" THEN BeamSearchAdapter_accept(d, state, x)
    ELSE IF d.kind = "epsbeam"
    THEN IF step_panics(d, state, x) THEN {}
         ELSE UNION {EpsilonExpanding_accept(c, state, x) : c \in CallOutcomes(d)}
    ELSE \* DFAUtf8Adapter::accept
         LET buffer == Append(state[2], x)
             chr    == chr_res(buffer)
         IN  IF chr # None
             THEN {<<s, <<>>>> : s \in dfa_accept(d.inner, state[1], chr[1])}
             ELSE {<<state[1], buffer>>}

\* levenshtein/weighted.rs
mk_levenshtein(query, threshold, beam_size) ==
    [kind |-> "utf8",
     inner |-> [kind |-> "beam", aut |-> WeightedLevenshteinNFA_new(query),
                threshold |-> threshold, beam_size |-> beam_size]]

\* the weights of the matching entries of a Levenshtein stack state
MatchWeights(a, state) ==
    {state[1][k][2] : k \in {j \in DOMAIN state[1] :
                               nfa_is_match(a.inner.aut, state[1][j][1])}}

----------------------------------------------------------------------------
(* Driving a matcher stack byte by byte *)

QueryChars ==
    {97, 98, 233}

Bytes ==
    {97, 98, 195, 169}

Thresholds ==
    {0, 1, INFINITY}

BeamSizes ==
    {1, 2, 64}

IsPrefix(p, k) ==
    Len(p) <= Len(k) /\ SubSeq(k, 1, Len(p)) = p

RECURSIVE SeqsUpTo(_, _)
SeqsUpTo(S, n) ==
    IF n = 0 THEN {<<>>}
    ELSE LET R == SeqsUpTo(S, n - 1) IN
         R \cup {Append(r, x) : r \in {q \in R : Len(q) = n - 1}, x \in S}

Inputs(a) ==
    IF a.kind \in {"utf8", "simplelev"} THEN Bytes ELSE a.aut.alphabet

InitLev ==
    /\ aut \in {mk_levenshtein(Encode(q), t, n) :
                   q \in SeqsUpTo(QueryChars, MaxQueryLen),
                   t \in Thresholds, n \in BeamSizes}
    /\ st \in dfa_start(aut)
    /\ fed = <<>>
    /\ calls = <<>>
    /\ fst = {}
    /\ inp = <<>>
    /\ stack = <<>>
    /\ pc = "idle"
    /\ ret = None
    /\ emitted = <<>>
    /\ agenda = None
    /\ popped = <<>>

\* state = aut.accept(&state, *inp)
Feed(x) ==
    /\ st' \in dfa_accept(aut, st, x)
    /\ fed' = Append(fed, x)
    /\ calls' = IF aut.kind = "utf8" /\ chr_res(Append(st[2], x)) # None
                THEN calls \o chr_res(Append(st[2], x))
                ELSE calls
    /\ UNCHANGED <<aut, fst, inp, stack, pc, ret, emitted, agenda, popped>>

NextFeed ==
    \E x \in Inputs(aut) : Len(fed) < MaxKeyBytes /\ Feed(x)

SpecLev ==
    InitLev /\ [][NextFeed]_vars

----------------------------------------------------------------------------
(* Reference: Levenshtein distance between two char sequences *)

Min2(a, b) ==
    IF a <= b THEN a ELSE b

RECURSIVE LevDist(_, _)
LevDist(q, k) ==
    IF q = <<>> THEN Len(k)
    ELSE IF k = <<>> THEN Len(q)
    ELSE Min2(LevDist(Tail(q), Tail(k)) + (IF Head(q) = Head(k) THEN 0 ELSE 1),
              Min2(LevDist(Tail(q), k) + 1, LevDist(q, Tail(k)) + 1))

SetMin(S) ==
    CHOOSE m \in S : \A x \in S : m <= x

Unbounded ==
    aut.inner.threshold = INFINITY /\ aut.inner.beam_size = 64

\* C1: with unbounded beam and threshold, after feeding a valid UTF-8 key
\* the least cost of a matching frontier entry is the Levenshtein distance
\* between the query and the key.
C1_LevenshteinCorrect ==
    (aut.kind = "utf8" /\ Unbounded /\ from_utf8_ok(fed))
        => /\ MatchWeights(aut, st) # {}
           /\ SetMin(MatchWeights(aut, st)) = LevDist(aut.inner.aut.query, Chars(fed))

\* C2: with threshold 1 and a beam that never fills, a key matches exactly
\* when its Levenshtein distance to the query is at most 1, and then at a
\* cost equal to that distance (0 for the query itself, 1 for one
\* substitution, insertion or deletion).
C2_Threshold1Matches ==
    (aut.kind = "utf8" /\ aut.inner.threshold = 1 /\ aut.inner.beam_size = 64
       /\ from_utf8_ok(fed))
        => LET d == LevDist(aut.inner.aut.query, Chars(fed)) IN
           /\ dfa_is_match(aut, st) <=> d <= 1
           /\ dfa_is_match(aut, st) => SetMin(MatchWeights(aut, st)) = d

\* C28: for every query, threshold and beam_size, every cost attached to a
\* matching NFA state of the frontier reached by feeding a key is at least
\* the Levenshtein distance between the query and the key.
C28_NeverUnderPriced ==
    (aut.kind = "utf8" /\ from_utf8_ok(fed))
        => \A w \in MatchWeights(aut, st) :
              w >= LevDist(aut.inner.aut.query, Chars(fed))

\* a key has been fed whose cheapest matching entry costs more than its
\* distance to the query
C28_Witness ==
    /\ aut.kind = "utf8" /\ from_utf8_ok(fed) /\ fed # <<>>
    /\ MatchWeights(aut, st) # {}
    /\ SetMin(MatchWeights(aut, st)) > LevDist(aut.inner.aut.query, Chars(fed))

\* C29: the costs of the pairs yielded by accept(s, c) of the Levenshtein
\* NFA are non-decreasing; so in the Levenshtein stack, while the beam has
\* not filled, every edge of every frontier entry whose accumulated cost is
\* within the threshold has its target in the next frontier, at no more
\* than that cost.
C29_SortedEdgesNothingLost ==
    /\ [](\A s \in 0..Len(aut.inner.aut.query), c \in QueryChars :
            LET pairs == nfa_accept(aut.inner.aut, s, c) IN
            \A k \in 2..Len(pairs) : pairs[k - 1][2] <= pairs[k][2])
    /\ [][(calls' # calls /\ Len(st'[1]) < aut.inner.beam_size) =>
            LET c == calls'[Len(calls')] IN
            \A j \in DOMAIN st[1] :
               \A i \in DOMAIN nfa_accept(aut.inner.aut, st[1][j][1], c) :
                  LET e == nfa_accept(aut.inner.aut, st[1][j][1], c)[i]
                      w == WAdd(st[1][j][2], e[2])
                  IN
                  (w # INFINITY /\ w <= aut.inner.threshold) =>
                     \E k \in DOMAIN st'[1] :
                        st'[1][k][1] = e[1] /\ st'[1][k][2] <= w]_vars

\* accept(0, 'a') on the query "ab" at threshold 0: the item was discarded
\* at its second edge (1, 1), after the match edge (1, 0) was admitted
C29_Witness ==
    /\ aut.inner.aut.query = <<97, 98>>
    /\ aut.inner.threshold = 0 /\ aut.inner.beam_size = 64
    /\ fed = <<97>>
    /\ st[1] = <<<<1, 0>>>>

\* the pairs of deletion round r and of the rounds after it
RECURSIVE Rounds(_, _, _, _)
Rounds(query, s, c, r) ==
    (IF s + r < Len(query) /\ query[s + r + 1] = c
     THEN <<<<s + r + 1, r>>>> ELSE <<>>)
    \o (IF s + r < Len(query) THEN <<<<s + r + 1, r + 1>>>> ELSE <<>>)
    \o (IF r = 0 THEN <<<<s, 1>>>> ELSE <<>>)
    \o (IF s + r + 1 < Len(query) THEN Rounds(query, s, c, r + 1) ELSE <<>>)

\* the iterator once it has yielded None
RECURSIVE Drained(_, _)
Drained(query, it) ==
    LET r == LevenshteinNextStates_next(query, it) IN
    IF r[1] = None THEN r[2] ELSE Drained(query, r[2])

\* C20: accept(s, c) yields, in this order, for the deletion rounds
\* r = 0, 1, ...: the match pair (s+r+1, r) if query[s+r] = c, the
\* substitute pair (s+r+1, r+1) if s+r < |query|, in round 0 the insert
\* pair (s, 1); round r+1 follows only if s+r+1 < |query|; after the end
\* every call yields nothing; every next-state lies in [s, |query|] and no
\* pair is yielded twice.
C20_AcceptSequence ==
    LET nfa   == aut.inner.aut
        query == nfa.query
    IN  \A s \in 0..Len(query), c \in QueryChars :
           LET it    == LevenshteinNextStates_new(s, c)
               pairs == nfa_accept(nfa, s, c)
               end   == Drained(query, it)
           IN  /\ pairs = Rounds(query, s, c, 0)
               /\ LevenshteinNextStates_next(query, end)[1] = None
               /\ LevenshteinNextStates_next(query, end)[2] = end
               /\ \A k \in DOMAIN pairs :
                     pairs[k][1] >= s /\ pairs[k][1] <= Len(query)
               /\ \A j, k \in DOMAIN pairs : pairs[j] = pairs[k] => j = k

\* accept(0, 'b') on the query "ab" went through a deletion round: the
\* frontier holds its substitute, insert and second-round match pairs
C20_Witness ==
    /\ aut.inner.aut.query = <<97, 98>>
    /\ aut.inner.beam_size = 64 /\ aut.inner.threshold = 1
    /\ fed = <<98>>
    /\ {st[1][k] : k \in DOMAIN st[1]} = {<<1, 1>>, <<0, 1>>, <<2, 1>>}

\* C14: for beam_size >= 1 and any threshold, feeding the query's own
\* bytes ends in a matching state of least cost 0; with beam_size = 1 every
\* frontier along the way holds at most one entry.
C14_QueryMatchesItself ==
    LET q == Encode(aut.inner.aut.query) IN
    aut.inner.beam_size >= 1 =>
        /\ fed = q => /\ MatchWeights(aut, st) # {}
                      /\ SetMin(MatchWeights(aut, st)) = 0
        /\ (aut.inner.beam_size = 1 /\ IsPrefix(fed, q)) => Len(st[1]) <= 1

\* a two-character query with a two-byte character has been fed to a
\* matcher of beam_size 1 and threshold 0
C14_Witness ==
    /\ aut.inner.beam_size = 1 /\ aut.inner.threshold = 0
    /\ Len(aut.inner.aut.query) = 2
    /\ \E i \in 1..2 : aut.inner.aut.query[i] >= 128
    /\ fed = Encode(aut.inner.aut.query)
    /\ st[1] = <<<<2, 0>>>>

----------------------------------------------------------------------------
(* Beam adapters over table-driven weighted NFAs with epsilon edges *)

NfaStates ==
    {0, 1, 2}

AcceptOpts ==
    {<<>>,
     <<<<1, 0>>, <<2, 1>>>>,
     <<<<2, 2>>, <<1, 0>>, <<0, 1>>>>,
     <<<<1, 1>>, <<1, 0>>, <<2, INFINITY>>>>}

AcceptOptsLast ==
    {<<>>, <<<<2, 0>>, <<0, 1>>>>}

EpsOpts ==
    {<<>>, <<<<1, 0>>>>, <<<<2, 1>>, <<0, 0>>>>}

NoEps ==
    [s \in NfaStates |-> <<>>]

TableNFA(e0, e1, e2, eps) ==
    [kind |-> "table", start |-> 0, final |-> {2}, alphabet |-> {0},
     edges |-> [s \in NfaStates |->
                  [x \in {0} |-> IF s = 0 THEN e0 ELSE IF s = 1 THEN e1 ELSE e2]],
     eps |-> eps]

BeamThresholds ==
    {0, 1, 2, INFINITY}

BeamSizesAll ==
    {0, 1, 2, 3}

\* both adapters over every table NFA of the pool
BeamAdapters ==
    {[kind |-> "beam", aut |-> TableNFA(e0, e1, e2, NoEps),
      threshold |-> t, beam_size |-> n] :
         e0 \in AcceptOpts, e1 \in AcceptOpts, e2 \in AcceptOptsLast,
         t \in BeamThresholds, n \in BeamSizesAll}
    \cup
    {[kind |-> "epsbeam", aut |-> TableNFA(e0, e1, e2, eps),
      threshold |-> t, beam_size |-> n] :
         e0 \in AcceptOpts, e1 \in AcceptOpts, e2 \in AcceptOptsLast,
         eps \in [NfaStates -> EpsOpts],
         t \in BeamThresholds, n \in BeamSizesAll}

InitBeam ==
    /\ aut \in BeamAdapters
    /\ st \in dfa_start(aut)
    /\ fed = <<>>
    /\ calls = <<>>
    /\ fst = {}
    /\ inp = <<>>
    /\ stack = <<>>
    /\ pc = "idle"
    /\ ret = None
    /\ emitted = <<>>
    /\ agenda = None
    /\ popped = <<>>

SpecBeam ==
    InitBeam /\ [][NextFeed]_vars

\* the beam adapter of the stack
Beam ==
    IF aut.kind = "utf8" THEN aut.inner ELSE aut

\* the frontier held in the automaton state
Frontier ==
    IF aut.kind = "utf8" THEN st[1] ELSE st

States(frontier) ==
    {frontier[k][1] : k \in DOMAIN frontier}

\* C6: every frontier returned by start() or accept() has at most
\* beam_size entries.
C6_BeamBound ==
    Len(Frontier) <= Beam.beam_size

\* C7: no frontier returned by start() or accept() holds an NFA state twice.
C7_FrontierDedup ==
    \A j, k \in DOMAIN Frontier : Frontier[j][1] = Frontier[k][1] => j = k

EdgeSet(edges) ==
    {edges[k] : k \in DOMAIN edges}

\* the targets of the edges labelled x out of the states of a frontier
OneStep(nfa, frontier, x) ==
    UNION {{e[1] : e \in EdgeSet(nfa_accept(nfa, s, x))} : s \in States(frontier)}

RECURSIVE EpsClosure(_, _)
EpsClosure(nfa, S) ==
    LET N == S \cup UNION {{e[1] : e \in EdgeSet(nfa_follow_epsilon(nfa, s))} : s \in S}
    IN  IF N = S THEN S ELSE EpsClosure(nfa, N)

Admissible(w) ==
    w # INFINITY /\ w <= Beam.threshold

\* C8: after accept(frontier, inp) every entry (s, w) has w finite and
\* w <= threshold, and s is the target of an inp edge out of the input
\* frontier (then epsilon edges in the epsilon variant); the bound is
\* inclusive: while the beam has not filled, the target of an item's first
\* edge is in the result whenever its accumulated cost is <= threshold.
C8_FrontierSound ==
    [][fed' # fed =>
        LET x == fed'[Len(fed')] IN
        /\ \A k \in DOMAIN st' :
             /\ Admissible(st'[k][2])
             /\ st'[k][1] \in
                  IF aut.kind = "epsbeam"
                  THEN EpsClosure(aut.aut, OneStep(aut.aut, st, x))
                  ELSE OneStep(aut.aut, st, x)
        /\ Len(st') < aut.beam_size =>
             \A j \in DOMAIN st :
                LET edges == nfa_accept(aut.aut, st[j][1], x) IN
                (edges # <<>> /\ Admissible(WAdd(st[j][2], edges[1][2])))
                    => edges[1][1] \in States(st')
      ]_vars

\* every edge labelled x out of every entry of a frontier, as
\* <<target, accumulated cost>>
FullExpansion(nfa, frontier, x) ==
    UNION {{<<e[1], WAdd(frontier[j][2], e[2])>> :
               e \in EdgeSet(nfa_accept(nfa, frontier[j][1], x))} :
           j \in DOMAIN frontier}

\* the admissible targets of a full expansion, each at its least cost
Reference(nfa, frontier, x) ==
    LET within == {p \in FullExpansion(nfa, frontier, x) : Admissible(p[2])}
    IN  {p \in within : \A q \in within : q[1] = p[1] => p[2] <= q[2]}

\* C22: when the beam does not fill, accept(frontier, inp) of the beam
\* adapter returns the same set of (state, cost) pairs as the full expansion
\* of every edge of every frontier entry: the next-states reachable with
\* accumulated cost <= threshold, each at its minimum accumulated cost.
C22_MatchesFullExpansion ==
    [][(fed' # fed /\ aut.kind = "beam" /\ Len(st') < aut.beam_size) =>
         {st'[k] : k \in DOMAIN st'} = Reference(aut.aut, st, fed'[Len(fed')])
      ]_vars

\* C11: a frontier of the epsilon-expanding adapter with fewer than
\* beam_size entries is closed under epsilon edges within the threshold:
\* for (s, w) in the frontier and (t, c) in follow_epsilon(s) with
\* w + c <= threshold, t is in the frontier with cost at most w + c.
C11_EpsilonClosed ==
    (aut.kind = "epsbeam" /\ Len(st) < aut.beam_size) =>
        \A k \in DOMAIN st :
            \A e \in EdgeSet(nfa_follow_epsilon(aut.aut, st[k][1])) :
                Admissible(WAdd(st[k][2], e[2])) =>
                    \E j \in DOMAIN st :
                        /\ st[j][1] = e[1]
                        /\ st[j][2] <= WAdd(st[k][2], e[2])

\* accept met two admissible edges into one state and kept one entry
C7_Witness ==
    /\ aut.kind = "beam" /\ aut.beam_size = 3 /\ Len(fed) = 1
    /\ LET edges == nfa_accept(aut.aut, nfa_start(aut.aut), fed[1]) IN
       \E i, j \in DOMAIN edges :
          /\ i # j /\ edges[i][1] = edges[j][1]
          /\ Admissible(edges[i][2]) /\ Admissible(edges[j][2])
          /\ edges[i][1] \in States(st)

\* accept admitted an entry at exactly the threshold, after epsilon edges
C8_Witness ==
    /\ aut.kind = "epsbeam" /\ aut.threshold = 2 /\ fed # <<>>
    /\ Len(st) >= 2
    /\ \E k \in DOMAIN st : st[k][2] = aut.threshold

----------------------------------------------------------------------------
(* The composed stacks: beam, epsilon beam, and the UTF-8 adapter over them *)

\* a table NFA over chars, the same edges under every char
CharTableNFA(e0, e1, eps) ==
    [kind |-> "table", start |-> 0, final |-> {2}, alphabet |-> QueryChars,
     edges |-> [s \in NfaStates |->
                  [x \in QueryChars |-> IF s = 0 THEN e0 ELSE IF s = 1 THEN e1 ELSE <<>>]],
     eps |-> eps]

Utf8EpsilonAdapters ==
    {[kind |-> "utf8",
      inner |-> [kind |-> "epsbeam", aut |-> CharTableNFA(e0, e1, eps),
                 threshold |-> t, beam_size |-> n]] :
         e0 \in AcceptOpts, e1 \in AcceptOpts,
         eps \in {NoEps, [s \in NfaStates |-> <<<<1, 0>>>>]},
         t \in {0, 1}, n \in {1, 3}}

InitStacks ==
    /\ aut \in BeamAdapters
              \cup {mk_levenshtein(Encode(q), t, n) :
                       q \in SeqsUpTo(QueryChars, MaxQueryLen),
                       t \in Thresholds, n \in BeamSizes}
              \cup Utf8EpsilonAdapters
    /\ st \in dfa_start(aut)
    /\ fed = <<>>
    /\ calls = <<>>
    /\ fst = {}
    /\ inp = <<>>
    /\ stack = <<>>
    /\ pc = "idle"
    /\ ret = None
    /\ emitted = <<>>
    /\ agenda = None
    /\ popped = <<>>

SpecStacks ==
    InitStacks /\ [][NextFeed]_vars

\* C16: in every reachable state of a composed stack is_match implies
\* can_match and will_always_match implies can_match; once can_match is
\* false it stays false after every accept and is_match is never true
\* again; the empty frontier is absorbing.
C16_PredicateContract ==
    /\ [](/\ dfa_is_match(aut, st) => dfa_can_match(aut, st)
          /\ dfa_will_always_match(aut, st) => dfa_can_match(aut, st))
    /\ [][(~dfa_can_match(aut, st)
               => (~dfa_can_match(aut, st') /\ ~dfa_is_match(aut, st')))
           /\ (Frontier = <<>> => Frontier' = <<>>)]_vars

\* a matcher that matched after its first byte has lost every candidate
\* and has been fed again
C16_Witness ==
    /\ aut.kind = "utf8" /\ aut.inner.kind = "beam"
    /\ aut.inner.aut.query = <<97>> /\ aut.inner.threshold = 0
    /\ Len(fed) >= 3 /\ fed[1] = 97 /\ fed[2] = 98
    /\ ~dfa_can_match(aut, st)

----------------------------------------------------------------------------
(* The weighted-transducer stack (hfst.rs), driven byte by byte *)

MaxHfstBytes ==
    4

HfstBytes ==
    {0, 97, 195, 169}

HfstTransition(sym, target, w) ==
    [sym |-> sym, target |-> target, weight |-> w]

\* symbols of one, two and four bytes
SymA ==
    <<97>>

SymE ==
    <<195, 169>>

SymF ==
    <<195, 169, 169, 97>>

HfstOpts0 ==
    {<<>>,
     <<HfstTransition(SymA, 1, 0), HfstTransition(SymA, 2, 1)>>,
     <<HfstTransition(SymF, 2, 0)>>,
     <<HfstTransition(SymE, 1, 1), HfstTransition(EpsilonSymbol, 1, 0)>>}

HfstOpts1 ==
    {<<>>,
     <<HfstTransition(SymE, 2, 1), HfstTransition(EpsilonSymbol, 2, 0)>>,
     <<HfstTransition(SymA, 1, 0), HfstTransition(SymF, 2, 1)>>}

HfstOpts2 ==
    {<<>>, <<HfstTransition(EpsilonSymbol, 0, 1)>>}

mk_stack(nfa, threshold, beam_size) ==
    [kind |-> "epsbeam", aut |-> nfa, threshold |-> threshold,
     beam_size |-> beam_size]

HfstStacks ==
    {mk_stack([kind |-> "hfst", final |-> {2},
               graph |-> [s \in NfaStates |->
                            IF s = 0 THEN t0 ELSE IF s = 1 THEN t1 ELSE t2],
               read |-> [k \in 1..2 |-> None]], t, n) :
        t0 \in HfstOpts0, t1 \in HfstOpts1, t2 \in HfstOpts2,
        t \in {0, 1}, n \in {1, 3}}

InitHfst ==
    /\ aut \in HfstStacks
    /\ st \in dfa_start(aut)
    /\ fed = <<>>
    /\ calls = <<>>
    /\ fst = {}
    /\ inp = <<>>
    /\ stack = <<>>
    /\ pc = "idle"
    /\ ret = None
    /\ emitted = <<>>
    /\ agenda = None
    /\ popped = <<>>

\* accept panics in CString::new(inp).unwrap()
FeedPanics(x) ==
    /\ step_panics(aut, st, x)
    /\ pc' = "panic"
    /\ fed' = Append(fed, x)
    /\ UNCHANGED <<aut, st, calls, fst, inp, stack, ret, emitted, agenda, popped>>

NextHfst ==
    \E x \in HfstBytes :
        /\ pc = "idle"
        /\ Len(fed) < MaxHfstBytes
        /\ (Feed(x) \/ FeedPanics(x))

SpecHfst ==
    InitHfst /\ [][NextHfst]_vars

\* the edge lists accept(state, b) may yield; none when it panics
AcceptYields(state, b) ==
    IF ~CString_new_ok(Append(state[2], b)) THEN {}
    ELSE {HfstBasicTransducerBox_accept(c.aut, state, b) : c \in CallOutcomes(aut)}

Unmatched(state, b) ==
    next_states_out(aut.aut, state[1], Append(state[2], b)) = <<>>

\* C17: accept on (q, buf) with a byte b such that buf+b matches no symbol
\* out of q yields exactly the edge ((q, buf+b), 0) while buf+b has fewer
\* than 4 bytes and no edge once it has 4; so an entry keeps its cost over
\* up to 3 unmatched bytes, nothing derives from it at the 4th, and no
\* reachable state has a buffer of more than 4 bytes.
C17_UnmatchedBytes ==
    /\ [](pc = "idle" =>
            \A k \in DOMAIN st :
               /\ Len(st[k][1][2]) <= 4
               /\ \A b \in HfstBytes :
                     Unmatched(st[k][1], b) =>
                        AcceptYields(st[k][1], b) =
                           {IF Len(st[k][1][2]) + 1 < 4
                            THEN <<<<<<st[k][1][1], Append(st[k][1][2], b)>>, 0>>>>
                            ELSE <<>>})
    /\ [][(pc' = "idle" /\ fed' # fed) =>
            LET b == fed'[Len(fed')] IN
            \A k \in DOMAIN st :
               Unmatched(st[k][1], b) =>
                  LET e == <<<<st[k][1][1], Append(st[k][1][2], b)>>, st[k][2]>> IN
                  IF Len(st[k][1][2]) + 1 < 4
                  THEN Len(st') < aut.beam_size => \E j \in DOMAIN st' : st'[j] = e
                  ELSE \A j \in DOMAIN st' : st'[j][1] # e[1]]_vars

----------------------------------------------------------------------------
(* step_inner, one iteration of its while loop per step *)

MaxAccepts ==
    1

InitLoop ==
    /\ aut \in BeamAdapters
    /\ st = BeamSearchAdapter_start(aut)
    /\ IF aut.kind = "epsbeam"
       THEN agenda = Some(EpsilonExpanding_start_entry(aut)) /\ pc = "loop"
       ELSE agenda = None /\ pc = "idle"
    /\ popped = <<>>
    /\ fed = <<>>
    /\ calls = <<>>
    /\ fst = {}
    /\ inp = <<>>
    /\ stack = <<>>
    /\ ret = None
    /\ emitted = <<>>

\* accept(&state, x) builds its heap and enters step_inner
BeginAccept(x) ==
    /\ pc = "idle"
    /\ Len(fed) < MaxAccepts
    /\ agenda' = Some(step_inner_entry(step_heap(aut, st, x), {}, <<>>))
    /\ popped' = <<>>
    /\ fed' = Append(fed, x)
    /\ pc' = "loop"
    /\ UNCHANGED <<aut, st, calls, fst, inp, stack, ret, emitted>>

\* while let Some(mut item) = heap.pop() { ... }
Iterate ==
    /\ pc = "loop"
    /\ ~LoopDone(agenda[1])
    /\ \E i \in PopChoices(agenda[1].heap) :
          LET item == agenda[1].heap[i] IN
          /\ agenda' = Some(step_iteration(aut, aut.kind = "epsbeam", agenda[1], i))
          /\ popped' = IF item.peek = None THEN popped
                       ELSE Append(popped, weight(item))
    /\ UNCHANGED <<aut, st, fed, calls, fst, inp, stack, pc, ret, emitted>>

\* the loop has ended: step_inner returns result
Return ==
    /\ pc = "loop"
    /\ LoopDone(agenda[1])
    /\ st' = agenda[1].result
    /\ agenda' = None
    /\ pc' = "idle"
    /\ UNCHANGED <<aut, fed, calls, fst, inp, stack, ret, emitted, popped>>

NextLoop ==
    (\E x \in Inputs(aut) : BeginAccept(x)) \/ Iterate \/ Return

SpecLoop ==
    InitLoop /\ [][NextLoop]_vars

\* C12: within one accept or epsilon start, the accumulated costs of the
\* edges popped from the heap are non-decreasing up to the first popped
\* cost that exceeds the threshold.
C12_PoppedCostsMonotone ==
    \A j \in 2..Len(popped) :
        (\A k \in 1..(j - 1) : ~OverThreshold(aut, popped[k]))
            => popped[j - 1] <= popped[j]

\* a started step_inner runs its loop until it returns
SpecLoopLive ==
    InitLoop /\ [][NextLoop]_vars /\ WF_vars(Iterate \/ Return)

\* C25: step_inner terminates for every NFA of the pool (epsilon cycles of
\* zero and of positive cost included), every threshold and beam_size; it
\* returns only with the beam full or the heap empty; and it puts the
\* epsilon edges of a state on the heap only when it admits that state for
\* the first time, so at most once per admitted state.
C25_BeamStepTerminates ==
    /\ (pc = "loop") ~> (pc = "idle")
    /\ [][(pc = "loop" /\ pc' = "idle") =>
            (agenda[1].heap = <<>> \/ Len(agenda[1].result) >= aut.beam_size)]_vars
    /\ [][(pc = "loop" /\ pc' = "loop") =>
            LET c == agenda[1]
                d == agenda'[1]
            IN  /\ c.seen_states \subseteq d.seen_states
                /\ Len(d.heap) <= Len(c.heap) + 1
                /\ Len(d.heap) > Len(c.heap) =>
                     LET item == d.heap[Len(d.heap)]
                         new  == d.result[Len(d.result)]
                     IN  /\ aut.kind = "epsbeam"
                         /\ d.result = Append(c.result, new)
                         /\ new[1] \notin c.seen_states
                         /\ new[1] \in d.seen_states
                         /\ item = AgendaItem_new(new[2],
                                      nfa_follow_epsilon(aut.aut, new[1]))]_vars

\* start() has returned over an NFA whose state 1 has a zero-cost epsilon
\* edge to itself: the heap emptied with both states admitted once
C25_Witness ==
    /\ aut.kind = "epsbeam" /\ aut.beam_size = 3
    /\ aut.aut.eps[0] = <<<<1, 0>>>>
    /\ aut.aut.eps[1] = <<<<1, 0>>>>
    /\ pc = "idle" /\ fed = <<>>
    /\ st = <<<<0, 0>>, <<1, 0>>>>

\* C21: an item whose taken edge has accumulated weight above the threshold
\* (or infinite) leaves the heap for good and admits nothing, its remaining
\* edges with it; in every other iteration that took an edge and did not
\* fill the beam the item is back in the heap with its lookahead advanced.
C21_DiscardOrRepush ==
    [][(pc = "loop" /\ pc' = "loop" /\ agenda' # agenda) =>
        LET c == agenda[1]
            d == agenda'[1]
        IN  \E i \in PopChoices(c.heap) :
              LET item == c.heap[i]
                  w    == weight(item)
              IN  /\ popped' # popped => popped' = Append(popped, w)
                  /\ item.peek # None =>
                       IF w > aut.threshold \/ w = INFINITY
                       THEN /\ d.heap = RemoveAt(c.heap, i)
                            /\ d.result = c.result
                            /\ d.seen_states = c.seen_states
                       ELSE ~d.brk =>
                            /\ Len(d.heap) >= Len(c.heap)
                            /\ d.heap[i].base_weight = item.base_weight
                            /\ d.heap[i].peek =
                                  (IF item.iter = <<>> THEN None
                                   ELSE Some(Head(item.iter)))
                            /\ d.heap[i].iter =
                                  (IF item.iter = <<>> THEN <<>>
                                   ELSE Tail(item.iter))
                            /\ \A j \in DOMAIN c.heap :
                                  j # i => d.heap[j] = c.heap[j]]_vars

\* accept([(0, 0)], 0) at threshold 1 popped the edge (2, 2) first: the item
\* was discarded and its edges (1, 0) and (0, 1) never reached the frontier
C21_Witness ==
    /\ aut.kind = "beam" /\ aut.threshold = 1 /\ aut.beam_size = 3
    /\ aut.aut.edges[0][0] = <<<<2, 2>>, <<1, 0>>, <<0, 1>>>>
    /\ fed = <<0>> /\ pc = "idle"
    /\ popped = <<2>>
    /\ st = <<>>

----------------------------------------------------------------------------
(* UTF-8 adapter *)

Utf8Bytes ==
    {97, 195, 169, 226, 130, 240}

InitUtf8 ==
    /\ aut \in {mk_levenshtein(Encode(q), t, 64) :
                   q \in SeqsUpTo(QueryChars, MaxQueryLen), t \in {1}}
    /\ st \in dfa_start(aut)
    /\ fed = <<>>
    /\ calls = <<>>
    /\ fst = {}
    /\ inp = <<>>
    /\ stack = <<>>
    /\ pc = "idle"
    /\ ret = None
    /\ emitted = <<>>
    /\ agenda = None
    /\ popped = <<>>

NextUtf8 ==
    \E x \in Utf8Bytes : Len(fed) < MaxUtf8Bytes /\ Feed(x)

SpecUtf8 ==
    InitUtf8 /\ [][NextUtf8]_vars

\* the chars of the longest well-formed prefix of s
RECURSIVE CompleteChars(_)
CompleteChars(s) ==
    IF Utf8Head(s) = 0 THEN <<>>
    ELSE <<FirstChar(s)>> \o CompleteChars(SubSeq(s, Utf8Head(s) + 1, Len(s)))

\* what follows the longest well-formed prefix of s
RECURSIVE Rest(_)
Rest(s) ==
    IF Utf8Head(s) = 0 THEN s ELSE Rest(SubSeq(s, Utf8Head(s) + 1, Len(s)))

SecondOk(b, c) ==
    /\ IsCont(c)
    /\ (b = 224 => c >= 160)
    /\ (b = 237 => c <= 159)
    /\ (b = 240 => c >= 144)
    /\ (b = 244 => c <= 143)

\* r is empty or the start of a multi-byte character that is not complete
InProgress(r) ==
    \/ r = <<>>
    \/ Len(r) = 1 /\ r[1] >= 194 /\ r[1] <= 244
    \/ Len(r) = 2 /\ r[1] >= 224 /\ r[1] <= 244 /\ SecondOk(r[1], r[2])
    \/ Len(r) = 3 /\ r[1] >= 240 /\ r[1] <= 244 /\ SecondOk(r[1], r[2]) /\ IsCont(r[3])

\* the states of DFA d after the inputs xs, from a state of S
RECURSIVE FoldAccept(_, _, _)
FoldAccept(d, S, xs) ==
    IF xs = <<>> THEN S
    ELSE FoldAccept(d, UNION {dfa_accept(d, s, Head(xs)) : s \in S}, Tail(xs))

\* C9: while the bytes fed are the encoding of a string of scalars (up to a
\* character in progress), the inner DFA has been handed exactly those
\* scalars, one call per scalar, its state is the one reached by feeding
\* them directly, and the bytes of the character in progress are buffered;
\* a byte that completes a character steps the inner DFA once with that
\* character, and any other byte leaves the inner state unchanged.
C9_Utf8RoundTrip ==
    /\ [](aut.kind = "utf8" /\ InProgress(Rest(fed))
            => /\ calls = CompleteChars(fed)
               /\ st[2] = Rest(fed)
               /\ st[1] \in FoldAccept(aut.inner, dfa_start(aut.inner),
                                       CompleteChars(fed)))
    /\ [][(fed' # fed /\ InProgress(Rest(fed')))
            => IF Rest(fed') = <<>>
               THEN st'[1] \in dfa_accept(aut.inner, st[1], calls'[Len(calls')])
               ELSE st'[1] = st[1]]_vars

\* C19: for every byte sequence fed from start(), the buffer holds at most
\* 4 bytes, is a strict prefix of a well-formed UTF-8 sequence (0 to 3
\* bytes of a character in progress), and is empty exactly when the last
\* byte completed a character.
C19_BufferBounded ==
    /\ [](Len(st[2]) <= 4 /\ InProgress(st[2]))
    /\ [][fed' # fed =>
            LET buffer == Append(st[2], fed'[Len(fed')]) IN
            (st'[2] = <<>>) <=> (Utf8Head(buffer) = Len(buffer))]_vars

\* C10: the UTF-8 adapter matches exactly when the bytes fed end on a
\* character boundary (empty buffer) and the inner state matches; it never
\* matches while a character is incomplete.
C10_Utf8IsMatch ==
    aut.kind = "utf8" =>
        /\ st[2] # <<>> => ~dfa_is_match(aut, st)
        /\ st[2] = <<>> <=> from_utf8_ok(fed)
        /\ dfa_is_match(aut, st)
             <=> (from_utf8_ok(fed) /\ BeamSearchAdapter_is_match(aut.inner, st[1]))

----------------------------------------------------------------------------
(* The FST (fst::raw), as the minimal transducer of a key -> value map:   *)
(* a node is the set of <<suffix, value still to add>> below it, and is   *)
(* its own address.                                                       *)

fst_root(f) ==
    f

fst_node(f, addr) ==
    addr

Labels(node) ==
    {p[1][1] : p \in {q \in node : q[1] # <<>>}}

node_len(node) ==
    Cardinality(Labels(node))

\* transitions are ordered by strictly increasing label
node_transition(node, i) ==
    LET b   == CHOOSE l \in Labels(node) :
                   Cardinality({m \in Labels(node) : m < l}) = i
        sub == {<<Tail(p[1]), p[2]>> : p \in {q \in node : q[1] # <<>> /\ q[1][1] = b}}
        o   == SetMin({p[2] : p \in sub})
    IN  [inp |-> b, out |-> o, addr |-> {<<p[1], p[2] - o>> : p \in sub}]

node_is_final(node) ==
    \E p \in node : p[1] = <<>>

node_final_output(node) ==
    IF node_is_final(node) THEN (CHOOSE p \in node : p[1] = <<>>)[2] ELSE 0

\* Output::cat
cat(o1, o2) ==
    o1 + o2

----------------------------------------------------------------------------
(* SimpleStateStream (ext/raw.rs) *)

SimpleStateStream_new(f, a, start_state) ==
    [inp |-> <<>>,
     stack |-> <<[node |-> fst_root(f), trans |-> 0, out |-> 0,
                  aut_state |-> start_state]>>]

\* mutant: can_match is not consulted
ShouldPrune_trans_only(state) ==
    state.trans >= node_len(state.node)

\* the prune test of next()
ShouldPrune(state) ==
    state.trans >= node_len(state.node) \/ ~dfa_can_match(aut, state.aut_state)

\* mutant: the parent is pushed back without advancing its transition
ParentFrame_same(state) ==
    state

\* StreamState { trans: state.trans + 1, .. state }
ParentFrame(state) ==
    [state EXCEPT !.trans = state.trans + 1]

\* mutant: a final node is returned whatever the automaton says
IsHit_final_only(next_node, is_match) ==
    node_is_final(next_node)

\* if next_node.is_final() && is_match
IsHit(next_node, is_match) ==
    node_is_final(next_node) /\ is_match

\* mutant: the byte is popped at the root too
PopsByte_always(state) ==
    TRUE

\* if state.node.addr() != self.fst.root().addr()
PopsByte(state) ==
    state.node # fst_root(fst)

\* mutant: the label is not in the buffer when the key is returned
push_late(key, b) ==
    key

\* self.inp.push(trans.inp)
push(key, b) ==
    Append(key, b)

\* the next() call begins
CallNext ==
    /\ pc = "idle"
    /\ pc' = "loop"
    /\ UNCHANGED <<aut, st, fed, calls, fst, inp, stack, ret, emitted, agenda, popped>>

\* while let Some(state) = self.stack.pop() fails: return None
Exhausted ==
    /\ pc = "loop"
    /\ stack = <<>>
    /\ ret' = None
    /\ pc' = "idle"
    /\ UNCHANGED <<aut, st, fed, calls, fst, inp, stack, emitted, agenda, popped>>

\* an iteration that pops a frame and prunes it
Prune ==
    /\ pc = "loop"
    /\ stack # <<>>
    /\ LET state == stack[Len(stack)] IN
       /\ ShouldPrune(state)
       /\ stack' = SubSeq(stack, 1, Len(stack) - 1)
       /\ IF PopsByte(state)
          THEN IF inp = <<>>
               THEN pc' = "panic" /\ inp' = inp      \* self.inp.pop().unwrap()
               ELSE pc' = pc /\ inp' = SubSeq(inp, 1, Len(inp) - 1)
          ELSE pc' = pc /\ inp' = inp
    /\ UNCHANGED <<aut, st, fed, calls, fst, ret, emitted, agenda, popped>>

\* an iteration that pops a frame and takes its next transition;
\* it returns the key when the target is final and the automaton matches
Descend ==
    /\ pc = "loop"
    /\ stack # <<>>
    /\ LET state == stack[Len(stack)] IN
       /\ ~ShouldPrune(state)
       /\ LET trans     == node_transition(state.node, state.trans)
              out       == cat(state.out, trans.out)
              next_node == fst_node(fst, trans.addr)
          IN  \E next_state \in dfa_accept(aut, state.aut_state, trans.inp) :
                 LET is_match == dfa_is_match(aut, next_state) IN
                 /\ inp' = push(inp, trans.inp)
                 /\ stack' = SubSeq(stack, 1, Len(stack) - 1)
                               \o <<ParentFrame(state),
                                    [node |-> next_node, trans |-> 0, out |-> out,
                                     aut_state |-> next_state]>>
                 /\ IF IsHit(next_node, is_match)
                    THEN /\ ret' = Some(<<inp', cat(out, node_final_output(next_node)),
                                          next_state>>)
                         /\ emitted' = Append(emitted, ret'[1])
                         /\ pc' = "idle"
                    ELSE UNCHANGED <<ret, emitted, pc>>
    /\ UNCHANGED <<aut, st, fed, calls, fst, agenda, popped>>

NextStream ==
    CallNext \/ Exhausted \/ Prune \/ Descend

KeyBytes ==
    {97, 98}

\* the value stored under a key
ValueOf(k) ==
    IF k = <<>> THEN 1 ELSE 1 + ((k[1] + 2 * Len(k)) % 3)

\* byte automata given by tables
TableDFAs ==
    {[kind |-> "tdfa", start |-> 0,
      delta |-> [s \in 0..2 |-> [x \in KeyBytes |->
                    IF x = 97 THEN (s + i) % 3 ELSE (s + i + 1) % 3]],
      match |-> m, can |-> c] :
        i \in 0..2,
        m \in SUBSET (0..2), c \in SUBSET (0..2)}

\* the automata that obey the contract is_match => can_match
ContractDFAs ==
    {a \in TableDFAs : a.match \subseteq a.can}

\* SimpleStateStream::new over an automaton of the pool and the FST of at
\* most MaxKeys of the candidate keys
StreamInitKeys(automata, candidates) ==
    /\ aut \in automata
    /\ fst \in {{<<k, ValueOf(k)>> : k \in K} :
                   K \in {X \in SUBSET candidates : Cardinality(X) <= MaxKeys}}
    /\ \E s \in dfa_start(aut) :
          /\ inp = SimpleStateStream_new(fst, aut, s).inp
          /\ stack = SimpleStateStream_new(fst, aut, s).stack
    /\ pc = "idle"
    /\ ret = None
    /\ emitted = <<>>
    /\ agenda = None
    /\ popped = <<>>
    /\ st = <<>>
    /\ fed = <<>>
    /\ calls = <<>>

StreamInit(automata) ==
    StreamInitKeys(automata, SeqsUpTo(KeyBytes, MaxKeyLen))

InitStream ==
    StreamInit(ContractDFAs)

SpecStream ==
    InitStream /\ [][NextStream]_vars

InitStreamAny ==
    StreamInit(TableDFAs)

SpecStreamAny ==
    InitStreamAny /\ [][NextStream]_vars

----------------------------------------------------------------------------
(* Properties of the joint stream *)

Keys(f) ==
    {p[1] : p \in f}

EmittedKeys ==
    {emitted[i][1] : i \in DOMAIN emitted}

Prefixes(k) ==
    {SubSeq(k, 1, n) : n \in 0..Len(k)}

\* byte-lexicographic order, strict
LexLess(a, b) ==
    \/ Len(a) < Len(b) /\ IsPrefix(a, b)
    \/ \E i \in 1..Min2(Len(a), Len(b)) :
          a[i] < b[i] /\ SubSeq(a, 1, i - 1) = SubSeq(b, 1, i - 1)

\* the automaton states after reading p from start()
After(p) ==
    FoldAccept(aut, dfa_start(aut), p)

CanMatchAt(p) ==
    \E s \in After(p) : dfa_can_match(aut, s)

IsMatchAt(p) ==
    \E s \in After(p) : dfa_is_match(aut, s)

StreamDone ==
    pc = "idle" /\ stack = <<>>

\* C3: the keys returned by successive next() calls are strictly
\* increasing in byte-lexicographic order.
C3_LexicographicEmission ==
    \A i, j \in DOMAIN emitted : i < j => LexLess(emitted[i][1], emitted[j][1])

\* C4: run to exhaustion, the stream has emitted exactly once every key of
\* the FST whose automaton state matches and whose proper prefixes all have
\* can_match, and no other key.
C4_ExactlyAccepted ==
    StreamDone =>
        LET accepted == {k \in Keys(fst) :
                           /\ IsMatchAt(k)
                           /\ \A p \in Prefixes(k) \ {k} : CanMatchAt(p)}
        IN  EmittedKeys = accepted /\ Len(emitted) = Cardinality(accepted)

\* C5: for an automaton that obeys is_match => can_match, no emitted key
\* has a prefix at which the automaton reports can_match false.
C5_PruningSound ==
    \A k \in EmittedKeys : \A p \in Prefixes(k) : CanMatchAt(p)

\* the node reached from a node along the labels p
RECURSIVE Walk(_, _)
Walk(node, p) ==
    IF p = <<>> THEN node
    ELSE LET i == CHOOSE j \in 0..(node_len(node) - 1) :
                      node_transition(node, j).inp = Head(p)
         IN  Walk(fst_node(fst, node_transition(node, i).addr), Tail(p))

\* p labels a path from the root
IsPath(p) ==
    p = <<>> \/ \E k \in Keys(fst) : IsPrefix(p, k)

LongestPath ==
    IF fst = {} THEN 0 ELSE -SetMin({-Len(k) : k \in Keys(fst)})

\* C23: at the head of every loop iteration and between next() calls, a
\* non-empty stack has inp.len() = stack.len() - 1 and inp labels the path
\* from the root to the node of the top frame (each frame sits at the end
\* of its prefix of inp); an ascent removes the byte its descent pushed,
\* never finds inp empty, and the stack holds at most the longest path
\* plus one frames.
C23_BufferFollowsStack ==
    /\ [](/\ pc # "panic"
          /\ Len(stack) <= LongestPath + 1
          /\ stack # <<>> =>
                /\ Len(inp) = Len(stack) - 1
                /\ IsPath(inp)
                /\ \A k \in DOMAIN stack :
                      stack[k].node = Walk(fst_root(fst), SubSeq(inp, 1, k - 1)))
    /\ [][Len(stack') < Len(stack) =>
            LET state == stack[Len(stack)] IN
            IF state.node = fst_root(fst) THEN inp' = inp /\ inp = <<>>
            ELSE LET parent == stack[Len(stack) - 1] IN
                 /\ inp # <<>>
                 /\ inp' = SubSeq(inp, 1, Len(inp) - 1)
                 /\ inp[Len(inp)] =
                       node_transition(parent.node, parent.trans - 1).inp
                 /\ state.node =
                       fst_node(fst, node_transition(parent.node,
                                                     parent.trans - 1).addr)]_vars

\* both transitions of the root were taken and the stream came back up
\* from a node below the second one
C23_Witness ==
    /\ pc = "loop"
    /\ Len(stack) = 2
    /\ inp = <<98>>
    /\ stack[1].trans = 2
    /\ stack[2].trans = 1

\* a started next() call runs its loop until it returns
LoopStep ==
    Exhausted \/ Prune \/ Descend

SpecStreamLive ==
    InitStreamAny /\ [][NextStream]_vars /\ WF_vars(LoopStep)

\* C24: every next() call terminates; the calls that return a match are
\* finitely many (at most one per key of the FST); a call returns None only
\* with the stack and the key buffer empty, and from then on every call
\* returns None.
C24_StreamTerminates ==
    /\ (pc = "loop") ~> (pc = "idle")
    /\ [](Len(emitted) <= Cardinality(Keys(fst)))
    /\ [](stack = <<>> => inp = <<>>)
    /\ [][(pc = "loop" /\ pc' = "idle" /\ emitted' = emitted) =>
            (ret' = None /\ stack' = <<>> /\ inp' = <<>>)]_vars
    /\ [][stack = <<>> =>
            /\ stack' = <<>> /\ inp' = <<>> /\ emitted' = emitted
            /\ pc = "loop" => (pc' = "idle" /\ ret' = None)]_vars

\* next() has returned None after two calls that returned a key
C24_Witness ==
    /\ pc = "idle"
    /\ stack = <<>> /\ inp = <<>>
    /\ ret = None
    /\ Len(emitted) = 2

\* C26: the stream never returns the empty key, even when the root is
\* final and the start state matches: a key is returned only by an
\* iteration that has taken a transition and pushed its label.
C26_NoEmptyKey ==
    /\ [](\A i \in DOMAIN emitted : emitted[i][1] # <<>>)
    /\ [][emitted' # emitted =>
            /\ ret' # None /\ ret'[1][1] # <<>>
            /\ ret'[1][1] = inp'
            /\ Len(inp') = Len(inp) + 1
            /\ emitted' = Append(emitted, ret'[1])]_vars

\* the stream has run dry over an FST that holds the empty key, with a
\* start state that matches, and has returned another key
C26_Witness ==
    /\ StreamDone
    /\ <<>> \in Keys(fst)
    /\ IsMatchAt(<<>>)
    /\ emitted # <<>>

----------------------------------------------------------------------------
(* The joint stream driven by the UTF-8 adapter over keys that are not    *)
(* UTF-8                                                                  *)

\* DFAUtf8Adapter over the char automata that step on 'a' and whose start
\* state can match
Utf8StreamAdapters ==
    {[kind |-> "utf8", inner |-> a] :
        a \in {d \in ContractDFAs : d.delta[0][97] = 1 /\ 0 \in d.can}}

\* keys over 'a' and the lone continuation byte 0x82, and keys that break
\* off a two-byte character
Utf8StreamKeys ==
    SeqsUpTo({97, 130}, MaxKeyLen) \cup {<<195>>, <<195, 97>>, <<195, 97, 97>>}

InitUtf8Stream ==
    StreamInitKeys(Utf8StreamAdapters, Utf8StreamKeys)

SpecUtf8Stream ==
    InitUtf8Stream /\ [][NextStream]_vars

\* the buffer is not the start of any well-formed sequence
Bad(buffer) ==
    buffer # <<>> /\ ~InProgress(buffer)

\* C27: from a state whose buffer is no prefix of valid UTF-8, accept keeps
\* the inner state and appends the byte; is_match is false in every such
\* state and can_match keeps its value; so the stream does not prune below
\* such an FST prefix (a frame there is popped only when its transitions
\* are used up) and returns no key extending it.
C27_InvalidUtf8Sticks ==
    /\ [](\A k \in DOMAIN stack :
            LET c == stack[k].aut_state IN
            /\ Bad(c[2]) =>
                  /\ ~dfa_is_match(aut, c)
                  /\ dfa_can_match(aut, c)
                  /\ c[2] = Rest(SubSeq(inp, 1, k - 1))
            /\ (k > 1 /\ Bad(stack[k - 1].aut_state[2])) =>
                  LET p == stack[k - 1].aut_state IN
                  /\ c = <<p[1], Append(p[2], inp[k - 1])>>
                  /\ dfa_can_match(aut, c) = dfa_can_match(aut, p))
    /\ [](\A i \in DOMAIN emitted :
            \A q \in Prefixes(emitted[i][1]) : ~Bad(Rest(q)))
    /\ [][(Len(stack') < Len(stack) /\ Bad(stack[Len(stack)].aut_state[2])) =>
            stack[Len(stack)].trans >= node_len(stack[Len(stack)].node)]_vars

\* the stream stands two bytes below the FST prefix 0x82, on a final node
\* and with an inner state that matches, and has not returned that key
C27_Witness ==
    /\ Len(stack) = 3
    /\ inp = <<130, 97>>
    /\ stack[3].aut_state[2] = <<130, 97>>
    /\ stack[3].aut_state[1] \in aut.inner.match
    /\ node_is_final(stack[3].node)
    /\ emitted = <<>>

\* C15: every returned triple (key, value, state) has state = the fold of
\* aut.accept over the bytes of key from aut.start(), aut.is_match(state),
\* and key spelling an FST path from the root to a final node.
C15_ReturnedTriple ==
    \A i \in DOMAIN emitted :
        LET key   == emitted[i][1]
            state == emitted[i][3]
        IN  /\ state \in After(key)
            /\ aut.kind = "tdfa" => After(key) = {state}
            /\ dfa_is_match(aut, state)
            /\ key \in Keys(fst)

\* a two-byte key was returned after a shorter one, in a state other than
\* the start state
C15_Witness ==
    /\ aut.kind = "tdfa"
    /\ Len(emitted) = 2
    /\ Len(emitted[2][1]) = 2
    /\ emitted[2][3] # aut.start
    /\ emitted[1][3] # emitted[2][3]

----------------------------------------------------------------------------
(* The joint stream driven by the Levenshtein matcher stack *)

StreamChars ==
    {97, 233}

StreamThresholds ==
    {0, 1, 2}

StreamBeamSizes ==
    {1, 64}

LevStreamKeys ==
    {Encode(cs) : cs \in SeqsUpTo(StreamChars, MaxKeyLen)}

InitLevStream ==
    StreamInitKeys({mk_levenshtein(Encode(q), t, n) :
                       q \in SeqsUpTo(StreamChars, MaxQueryLen),
                       t \in StreamThresholds, n \in StreamBeamSizes},
                   LevStreamKeys)

SpecLevStream ==
    InitLevStream /\ [][NextStream]_vars

\* C13: for the empty query the stream emits every key of at most
\* threshold characters, each with cost equal to its length in characters,
\* and no key of more characters.
C13_EmptyQuery ==
    aut.inner.aut.query = <<>> =>
        /\ \A i \in DOMAIN emitted :
              LET k == emitted[i][1] IN
              /\ Len(Chars(k)) <= aut.inner.threshold
              /\ MatchWeights(aut, emitted[i][3]) = {Len(Chars(k))}
        /\ StreamDone =>
              \A k \in Keys(fst) :
                 Len(Chars(k)) <= aut.inner.threshold => k \in EmittedKeys

\* the frontier of a stack state: the beam adapter's part of it
frontier_of(a, state) ==
    IF a.kind = "utf8" THEN state[1] ELSE state

\* weights: the costs of the entries whose NFA state matches
weights(a, state) ==
    LET b == IF a.kind = "utf8" THEN a.inner ELSE a
        f == frontier_of(a, state)
    IN  {f[k][2] : k \in {j \in DOMAIN f : nfa_is_match(b.aut, f[j][1])}}

\* mutant: an empty minimum is given as cost 0
min_by_or_zero(ws) ==
    IF ws = {} THEN Some(0) ELSE Some(SetMin(ws))

\* weights.min_by(compare_weights)
min_by(ws) ==
    IF ws = {} THEN None ELSE Some(SetMin(ws))

\* get_weights / get_levenshtein_weights up to the final unwrap(): the
\* values min_by may give, over the states the replay of result may end in
get_weights(a, result) ==
    {min_by(weights(a, state)) : state \in FoldAccept(a, dfa_start(a), result)}

\* the joint stream driven by the weighted-transducer stack, with a beam
\* that never fills
HfstStreamStacks ==
    {d \in HfstStacks :
        /\ d.threshold = 1 /\ d.beam_size = 3
        /\ Len(d.aut.graph[0]) = 2 /\ Len(d.aut.graph[1]) = 2
        /\ d.aut.graph[2] = <<>>}

HfstStreamKeys ==
    SeqsUpTo(HfstBytes \ {0}, MaxKeyLen) \cup {<<0>>}

InitHfstStream ==
    StreamInitKeys(HfstStreamStacks, HfstStreamKeys)

\* aut.accept panics in CString::new(inp).unwrap(), inside next()
DescendPanics ==
    /\ pc = "loop"
    /\ stack # <<>>
    /\ LET state == stack[Len(stack)] IN
       /\ ~ShouldPrune(state)
       /\ step_panics(aut, state.aut_state,
                      node_transition(state.node, state.trans).inp)
    /\ pc' = "panic"
    /\ UNCHANGED <<aut, st, fed, calls, fst, inp, stack, ret, emitted, agenda, popped>>

NextHfstStream ==
    NextStream \/ DescendPanics

SpecHfstStream ==
    InitHfstStream /\ [][NextHfstStream]_vars

\* C18: for every key the stream has emitted, get_weights of the key
\* returns the least cost of the matching entries of the emitted state,
\* which is the least cost of the matching entries of the replay's frontier.
C18_WeightsOfEmitted ==
    \A i \in DOMAIN emitted :
        get_weights(aut, emitted[i][1]) = {Some(SetMin(weights(aut, emitted[i][3])))}

----------------------------------------------------------------------------
(* get_weights (hfst.rs) and get_levenshtein_weights (weighted.rs), one   *)
(* step per loop iteration and one for the final unwrap                   *)

\* the transducer stacks replayed: threshold 1, a beam of 3
GetWeightsStacks ==
    {d \in HfstStacks : d.threshold = 1 /\ d.beam_size = 3}

\* let mut state = aut.start()
InitGetWeights ==
    /\ aut \in {mk_levenshtein(Encode(q), t, n) :
                   q \in SeqsUpTo(QueryChars, MaxQueryLen),
                   t \in {0, 1}, n \in {1, 64}}
               \cup GetWeightsStacks
    /\ st \in dfa_start(aut)
    /\ fed = <<>>
    /\ calls = <<>>
    /\ fst = {}
    /\ inp = <<>>
    /\ stack = <<>>
    /\ pc = "idle"
    /\ ret = None
    /\ emitted = <<>>
    /\ agenda = None
    /\ popped = <<>>

\* for inp in result { state = aut.accept(&state, *inp); }
Replay ==
    /\ pc = "idle"
    /\ IF aut.kind = "utf8"
       THEN \E x \in Bytes : Len(fed) < MaxKeyBytes /\ Feed(x)
       ELSE \E x \in HfstBytes :
               Len(fed) < MaxHfstBytes /\ (Feed(x) \/ FeedPanics(x))

\* weights.min_by(compare_weights).unwrap() returns the cost
Unwrap ==
    /\ pc = "idle"
    /\ min_by(weights(aut, st)) # None
    /\ ret' = min_by(weights(aut, st))
    /\ pc' = "done"
    /\ UNCHANGED <<aut, st, fed, calls, fst, inp, stack, emitted, agenda, popped>>

\* weights.min_by(compare_weights).unwrap() panics on None
UnwrapPanics ==
    /\ pc = "idle"
    /\ min_by(weights(aut, st)) = None
    /\ pc' = "panic"
    /\ UNCHANGED <<aut, st, fed, calls, fst, inp, stack, ret, emitted, agenda, popped>>

NextGetWeights ==
    Replay \/ Unwrap \/ UnwrapPanics

SpecGetWeights ==
    InitGetWeights /\ [][NextGetWeights]_vars

\* the final frontier has an entry whose NFA state matches
HasMatch ==
    LET f == frontier_of(aut, st)
        nfa == IF aut.kind = "utf8" THEN aut.inner.aut ELSE aut.aut
    IN  \E k \in DOMAIN f : nfa_is_match(nfa, f[k][1])

\* C31: once the key is replayed, get_weights and get_levenshtein_weights
\* abort at the unwrap exactly when the final frontier holds no matching
\* NFA state, and otherwise return the least cost of its matching entries.
C31_AbortsWithoutMatch ==
    [][(pc = "idle" /\ pc' # "idle" /\ fed' = fed) =>
        /\ pc' = "panic" <=> ~HasMatch
        /\ pc' = "done" <=> HasMatch
        /\ HasMatch =>
              LET f == frontier_of(aut, st) IN
              /\ ret' # None
              /\ \E k \in DOMAIN f : f[k][2] = ret'[1]
              /\ \A k \in DOMAIN f :
                    (IF aut.kind = "utf8"
                     THEN nfa_is_match(aut.inner.aut, f[k][1])
                     ELSE nfa_is_match(aut.aut, f[k][1]))
                        => ret'[1] <= f[k][2]]_vars

\* get_levenshtein_weights has aborted on a key that lies within the
\* threshold of the query
C31_Witness ==
    /\ pc = "panic"
    /\ aut.kind = "utf8"
    /\ from_utf8_ok(fed) /\ fed # <<>>
    /\ LevDist(aut.inner.aut.query, Chars(fed)) <= aut.inner.threshold
    /\ ~HasMatch

----------------------------------------------------------------------------
(* The unweighted automaton beside the weighted matcher stack *)

PairThresholds ==
    {0, 1, 2}

InitSimpleLev ==
    /\ aut \in {SimpleLevenshtein_new(Encode(q), t) :
                   q \in SeqsUpTo(QueryChars, MaxQueryLen), t \in PairThresholds}
    /\ st \in dfa_start(aut)
    /\ fed = <<>>
    /\ calls = <<>>
    /\ fst = {}
    /\ inp = <<>>
    /\ stack = <<>>
    /\ pc = "idle"
    /\ ret = None
    /\ emitted = <<>>
    /\ agenda = None
    /\ popped = <<>>

SpecSimpleLev ==
    InitSimpleLev /\ [][NextFeed]_vars

\* the weighted stack for the same query and threshold, its beam never full
Weighted ==
    mk_levenshtein(Encode(aut.query), aut.threshold, 64)

\* C30: after reading the same bytes from start(), SimpleLevenshtein with
\* threshold t reports is_match (and can_match) exactly when the weighted
\* Levenshtein stack with threshold t and a beam that never fills does.
C30_UnweightedAgrees ==
    LET W == FoldAccept(Weighted, dfa_start(Weighted), fed) IN
    /\ W # {}
    /\ \A s \in W :
          /\ dfa_is_match(aut, st) <=> dfa_is_match(Weighted, s)
          /\ dfa_can_match(aut, st) <=> dfa_can_match(Weighted, s)

\* both automata match a key at distance 2 from the query, and not for
\* want of a threshold
C30_Witness ==
    /\ aut.threshold = 2
    /\ from_utf8_ok(fed) /\ fed # <<>>
    /\ LevDist(aut.query, Chars(fed)) = 2
    /\ dfa_is_match(aut, st)
    /\ \E s \in FoldAccept(Weighted, dfa_start(Weighted), fed) :
          dfa_is_match(Weighted, s)

----------------------------------------------------------------------------
(* Reached cases *)

\* two multi-byte characters and a one-byte character have been decoded
C9_Witness ==
    /\ aut.kind = "utf8" /\ from_utf8_ok(fed)
    /\ Len(calls) >= 2
    /\ \E i \in DOMAIN calls : calls[i] >= 2048
    /\ \E i \in DOMAIN calls : calls[i] < 128

\* the inner state matches while a character is incomplete
C10_Witness ==
    /\ aut.kind = "utf8" /\ st[2] # <<>>
    /\ BeamSearchAdapter_is_match(aut.inner, st[1])
    /\ ~dfa_is_match(aut, st)

\* two keys have been returned
C3_Witness ==
    Len(emitted) >= 2

\* the stream has ended having returned a key and having pruned a prefix
\* below which the FST holds a key the automaton would match
C5_Witness ==
    /\ StreamDone /\ emitted # <<>>
    /\ \E k \in Keys(fst) :
          /\ IsMatchAt(k)
          /\ \E p \in Prefixes(k) \ {k} : ~CanMatchAt(p)

====
